---- MODULE Spec2Model ----
(***************************************************************************)
(* MCPClientRegistry (services/mcp_client_registry.py): a registry of      *)
(* named MCP clients kept in the table `mcp_clients`.  Every public        *)
(* operation is a short sequence of calls to the backing store; callers    *)
(* run concurrently and interleave at the granularity of those calls.      *)
(***************************************************************************)
EXTENDS Integers, Sequences, FiniteSets, Bags, TLC

(* ---------------- bounds of the model ---------------- *)
MaxClock == 1
MaxCalls == 2
MaxInFlight == 2

(* ---------------- input domains ---------------- *)
NONE == "None"
Names == {"agent1", "agent2"}
ClientIds == {NONE, "sess-1"}
Versions == {NONE, "1.0"}
Capabilities == {NONE, "caps-a"}
EMPTY == "{}"

Fields == {"display_name", "status", "client_id", "last_seen", "first_seen",
           "last_seen_version", "capabilities"}

\* store:    the rows of the table mcp_clients, in insertion order
\* clock:    the latest time any caller has read
\* inflight: the frames of the calls that have started and not returned
\* calls:    the number of calls started so far
\* last:     the call that returned last, with what it returned
VARIABLES store, clock, inflight, calls, last
vars == <<store, clock, inflight, calls, last>>

(* ---------------- helpers ---------------- *)
\* dict.get(key): the value, or None when the key is absent
Get(row, f) == IF f \in DOMAIN row THEN row[f] ELSE NONE

\* {**row, **update}
Merge(row, update) ==
  [f \in (DOMAIN row) \cup (DOMAIN update) |->
      IF f \in DOMAIN update THEN update[f] ELSE row[f]]

\* MCPClient(...) built from a row
ToModel(row) ==
  [display_name      |-> Get(row, "display_name"),
   status            |-> Get(row, "status"),
   client_id         |-> Get(row, "client_id"),
   last_seen         |-> Get(row, "last_seen"),
   first_seen        |-> Get(row, "first_seen"),
   last_seen_version |-> Get(row, "last_seen_version"),
   capabilities      |-> Get(row, "capabilities")]

\* `capabilities or {}`
OrEmpty(caps) == IF caps = NONE THEN EMPTY ELSE caps

\* comparison of display names as Python compares str
NameRank(n) ==
  CASE n = "agent1" -> 1 [] n = "agent2" -> 2 [] n = "agent3" -> 3 [] OTHER -> 0

(* ---------------- the backing table ---------------- *)
\* rows whose display_name equals name, in table order
Matching(tbl, name) == SelectSeq(tbl, LAMBDA r : r.display_name = name)

\* .select("*").eq("display_name", name).limit(1)
SelectOne(tbl, name) ==
  LET m == Matching(tbl, name) IN IF m = <<>> THEN <<>> ELSE <<m[1]>>

\* an update without its .eq("display_name", name) filter
TableUpdateAll(tbl, name, update) ==
  [i \in 1..Len(tbl) |-> Merge(tbl[i], update)]

\* an update that drops the rows it matches
TableUpdateDrops(tbl, name, update) ==
  SelectSeq(tbl, LAMBDA r : r.display_name # name)

\* .update(update).eq("display_name", name): the table afterwards
TableUpdate(tbl, name, update) ==
  [i \in 1..Len(tbl) |->
      IF tbl[i].display_name = name THEN Merge(tbl[i], update) ELSE tbl[i]]

\* column defaults of mcp_clients for the columns an insert leaves out
WithDefaults(ins) ==
  [f \in Fields |->
      IF f \in DOMAIN ins THEN ins[f]
      ELSE CASE f = "status" -> "connected"
             [] f = "capabilities" -> EMPTY
             [] OTHER -> NONE]

\* a table without the unique key: no insert is rejected
InsertConflictNever(tbl, ins) == FALSE

\* display_name is the unique key of mcp_clients: an insert of a name that
\* is already stored is rejected
InsertConflict(tbl, ins) == \E i \in 1..Len(tbl) : tbl[i].display_name = ins.display_name

\* .insert(insert): the table afterwards
TableInsert(tbl, ins) == Append(tbl, WithDefaults(ins))

(* ---------------- call frames ---------------- *)
\* the locals of a call in flight; pc is the statement it is about to execute.
\* The calls in flight form a bag: callers are interchangeable
Idle == [pc |-> "idle", name |-> NONE, client_id |-> NONE, version |-> NONE,
         capabilities |-> NONE, now |-> 0, existing |-> <<>>]

\* frame f starts, or frame f becomes g, or frame f ends
Started(f) == inflight (+) SetToBag({f})
Moved(f, g) == (inflight (-) SetToBag({f})) (+) SetToBag({g})
Ended(f) == inflight (-) SetToBag({f})

\* no call has returned yet
NoCall == [op |-> "none", name |-> NONE, client_id |-> NONE,
           version |-> NONE, capabilities |-> NONE, failed |-> FALSE,
           rows |-> <<>>, found |-> FALSE]

\* a call with frame f returns: `last` records the call and what it returned
\* (failed: an except clause ran; rows: the record or records returned,
\* <<>> for None; found: the bool returned)
Returned(f, op, failed, rows, found) ==
  [op |-> op, name |-> f.name, client_id |-> f.client_id, version |-> f.version,
   capabilities |-> f.capabilities, failed |-> failed, rows |-> rows,
   found |-> found]

Return(f, op, failed, rows, found) ==
  /\ last' = Returned(f, op, failed, rows, found)
  /\ inflight' = Ended(f)

Init ==
  /\ store = <<>>
  /\ clock = 0
  /\ inflight = EmptyBag
  /\ calls = 0
  /\ last = NoCall

\* _now_iso(): the clock is read and returns t. `clock` is the latest value
\* read so far; time only moves forward, so a read returns that value or a
\* later one
Times == clock..MaxClock
NowIso(t) == t \in Times /\ clock' = t

\* a caller is free to start a call
CanCall(limit) == BagCardinality(inflight) < MaxInFlight /\ calls < limit

(* ---------------- mark_connected ---------------- *)
\* the frames a mark_connected call can start with
ConnectedFrames ==
  {[Idle EXCEPT !.name = n, !.client_id = cid, !.version = v, !.capabilities = caps] :
      n \in Names, cid \in ClientIds, v \in Versions, caps \in Capabilities}

\* the call and its select of the existing row
MarkConnectedSelect(limit) ==
  /\ CanCall(limit)
  /\ \E f \in ConnectedFrames :
        inflight' = Started([f EXCEPT !.existing = SelectOne(store, f.name),
                                      !.pc = "mc_now"])
  /\ calls' = calls + 1
  /\ UNCHANGED <<store, clock, last>>

\* the select raises: the except clause starts with the clock read of last_seen=
MarkConnectedSelectFails(limit) ==
  /\ CanCall(limit)
  /\ \E f \in ConnectedFrames, t \in Times :
        /\ NowIso(t)
        /\ inflight' = Started([f EXCEPT !.now = t, !.pc = "mc_except"])
  /\ calls' = calls + 1
  /\ UNCHANGED <<store, last>>

MarkConnectedNow(f) ==
  /\ f.pc = "mc_now"
  /\ \E t \in Times :
        /\ NowIso(t)
        /\ inflight' = Moved(f, [f EXCEPT !.now = t,
                           !.pc = IF f.existing # <<>> THEN "mc_update" ELSE "mc_insert"])
  /\ UNCHANGED <<store, calls, last>>

\* the update as the SQL_UPSERT_CONNECTED template would write it: version and
\* capabilities overwritten even when None
ConnectedUpdateOverwrite(f) ==
  LET keys == {"status", "last_seen", "last_seen_version", "capabilities"}
              \cup (IF f.client_id # NONE THEN {"client_id"} ELSE {})
  IN [k \in keys |-> CASE k = "status" -> "connected"
                       [] k = "last_seen" -> f.now
                       [] k = "client_id" -> f.client_id
                       [] k = "last_seen_version" -> f.version
                       [] k = "capabilities" -> f.capabilities]

\* the update without its status entry
ConnectedUpdateNoStatus(f) ==
  LET keys == {"last_seen"}
              \cup (IF f.client_id # NONE THEN {"client_id"} ELSE {})
              \cup (IF f.version # NONE THEN {"last_seen_version"} ELSE {})
              \cup (IF f.capabilities # NONE THEN {"capabilities"} ELSE {})
  IN [k \in keys |-> CASE k = "last_seen" -> f.now
                       [] k = "client_id" -> f.client_id
                       [] k = "last_seen_version" -> f.version
                       [] k = "capabilities" -> f.capabilities]

\* the update with client_id written unconditionally
ConnectedUpdateAlwaysClientId(f) ==
  LET keys == {"status", "last_seen", "client_id"}
              \cup (IF f.version # NONE THEN {"last_seen_version"} ELSE {})
              \cup (IF f.capabilities # NONE THEN {"capabilities"} ELSE {})
  IN [k \in keys |-> CASE k = "status" -> "connected"
                       [] k = "last_seen" -> f.now
                       [] k = "client_id" -> f.client_id
                       [] k = "last_seen_version" -> f.version
                       [] k = "capabilities" -> f.capabilities]

\* the update dict of the existing-row branch
ConnectedUpdate(f) ==
  LET keys == {"status", "last_seen"}
              \cup (IF f.client_id # NONE THEN {"client_id"} ELSE {})
              \cup (IF f.version # NONE THEN {"last_seen_version"} ELSE {})
              \cup (IF f.capabilities # NONE THEN {"capabilities"} ELSE {})
  IN [k \in keys |-> CASE k = "status" -> "connected"
                       [] k = "last_seen" -> f.now
                       [] k = "client_id" -> f.client_id
                       [] k = "last_seen_version" -> f.version
                       [] k = "capabilities" -> f.capabilities]

MarkConnectedUpdate(f) ==
  /\ f.pc = "mc_update"
  /\ LET update == ConnectedUpdate(f)
         tbl == TableUpdate(store, f.name, update)
         data == Matching(tbl, f.name)
         row == IF data # <<>> THEN data[1] ELSE Merge(f.existing[1], update)
     IN /\ store' = tbl
        /\ Return(f, "mark_connected", FALSE, <<ToModel(row)>>, FALSE)
  /\ UNCHANGED <<clock, calls>>

\* the insert dict of the new-row branch
ConnectedInsert(f) ==
  [display_name |-> f.name, client_id |-> f.client_id, status |-> "connected",
   first_seen |-> f.now, last_seen |-> f.now, last_seen_version |-> f.version,
   capabilities |-> OrEmpty(f.capabilities)]

\* the insert; the store rejects it when the name is stored by now, and the
\* except clause starts with the clock read of last_seen=
MarkConnectedInsert(f) ==
  /\ f.pc = "mc_insert"
  /\ LET ins == ConnectedInsert(f) IN
       IF InsertConflict(store, ins)
       THEN /\ \E t \in Times :
                 /\ NowIso(t)
                 /\ inflight' = Moved(f, [f EXCEPT !.now = t, !.pc = "mc_except"])
            /\ UNCHANGED <<store, last>>
       ELSE /\ store' = TableInsert(store, ins)
            /\ Return(f, "mark_connected", FALSE, <<ToModel(WithDefaults(ins))>>, FALSE)
            /\ UNCHANGED clock
  /\ UNCHANGED calls

\* the update or the insert raises
MarkConnectedWriteFails(f) ==
  /\ f.pc \in {"mc_update", "mc_insert"}
  /\ \E t \in Times :
        /\ NowIso(t)
        /\ inflight' = Moved(f, [f EXCEPT !.now = t, !.pc = "mc_except"])
  /\ UNCHANGED <<store, calls, last>>

\* a fallback that fills omitted fields from the row the select returned
FallbackFromExisting(f, firstSeen) ==
  LET old == IF f.existing # <<>> THEN f.existing[1]
             ELSE [client_id |-> NONE, last_seen_version |-> NONE]
  IN [display_name |-> f.name, status |-> "connected",
      client_id |-> IF f.client_id # NONE THEN f.client_id ELSE old.client_id,
      last_seen |-> f.now, first_seen |-> firstSeen,
      last_seen_version |-> IF f.version # NONE THEN f.version
                            ELSE old.last_seen_version,
      capabilities |-> OrEmpty(f.capabilities)]

\* the fallback record: last_seen= was read first, first_seen= is read now
Fallback(f, firstSeen) ==
  [display_name |-> f.name, status |-> "connected", client_id |-> f.client_id,
   last_seen |-> f.now, first_seen |-> firstSeen,
   last_seen_version |-> f.version, capabilities |-> OrEmpty(f.capabilities)]

MarkConnectedExcept(f) ==
  /\ f.pc = "mc_except"
  /\ \E t \in Times :
        /\ NowIso(t)
        /\ Return(f, "mark_connected", TRUE, <<Fallback(f, t)>>, FALSE)
  /\ UNCHANGED <<store, calls>>

(* ---------------- mark_disconnected ---------------- *)
\* the call and its clock read, which precedes the update
MarkDisconnectedNow(limit) ==
  /\ CanCall(limit)
  /\ \E n \in Names, t \in Times :
        /\ NowIso(t)
        /\ inflight' = Started([Idle EXCEPT !.pc = "md_update", !.name = n, !.now = t])
  /\ calls' = calls + 1
  /\ UNCHANGED <<store, last>>

\* the update also resetting first_seen, or also clearing client_id
DisconnectedUpdateFirstSeen(f) ==
  [status |-> "disconnected", last_seen |-> f.now, first_seen |-> f.now]
DisconnectedUpdateClears(f) ==
  [status |-> "disconnected", last_seen |-> f.now, client_id |-> NONE]

DisconnectedUpdate(f) == [status |-> "disconnected", last_seen |-> f.now]

MarkDisconnectedUpdate(f) ==
  /\ f.pc = "md_update"
  /\ LET tbl == TableUpdate(store, f.name, DisconnectedUpdate(f))
         data == Matching(tbl, f.name)
     IN /\ store' = tbl
        /\ IF data # <<>>
           THEN Return(f, "mark_disconnected", FALSE, <<ToModel(data[1])>>, FALSE)
           ELSE /\ inflight' = Moved(f, [f EXCEPT !.pc = "md_insert"])
                /\ UNCHANGED last
  /\ UNCHANGED <<clock, calls>>

\* the insert without its status entry: the column default applies
DisconnectedInsertNoStatus(f) ==
  [display_name |-> f.name, first_seen |-> f.now, last_seen |-> f.now]

DisconnectedInsert(f) ==
  [display_name |-> f.name, status |-> "disconnected",
   first_seen |-> f.now, last_seen |-> f.now]

\* the insert; the store rejects it when the name is stored by now
MarkDisconnectedInsert(f) ==
  /\ f.pc = "md_insert"
  /\ LET ins == DisconnectedInsert(f) IN
       IF InsertConflict(store, ins)
       THEN /\ Return(f, "mark_disconnected", TRUE, <<>>, FALSE)
            /\ UNCHANGED store
       ELSE /\ store' = TableInsert(store, ins)
            /\ Return(f, "mark_disconnected", FALSE, <<ToModel(WithDefaults(ins))>>, FALSE)
  /\ UNCHANGED <<clock, calls>>

\* a failure answered with a synthetic record, as mark_connected does
MarkDisconnectedWriteFailsFallback(f) ==
  /\ f.pc \in {"md_update", "md_insert"}
  /\ Return(f, "mark_disconnected", TRUE, <<ToModel(DisconnectedInsert(f))>>, FALSE)
  /\ UNCHANGED <<store, clock, calls>>

\* the update or the insert raises: return None
MarkDisconnectedWriteFails(f) ==
  /\ f.pc \in {"md_update", "md_insert"}
  /\ Return(f, "mark_disconnected", TRUE, <<>>, FALSE)
  /\ UNCHANGED <<store, clock, calls>>

(* ---------------- list_all ---------------- *)
\* the orders in which the store may answer .order("last_seen", desc=True):
\* rows of equal last_seen come in any order
OrderByLastSeenDesc(tbl) ==
  LET n == Len(tbl)
      perms == {p \in [1..n -> 1..n] : \A i, j \in 1..n : i # j => p[i] # p[j]}
  IN {[i \in 1..n |-> tbl[p[i]]] : p \in
        {q \in perms : \A i, j \in 1..n :
            i < j => tbl[q[i]].last_seen >= tbl[q[j]].last_seen}}

\* a sort key without the status component
KeyLeqNameOnly(a, b) ==
  NameRank(Get(a, "display_name")) <= NameRank(Get(b, "display_name"))

\* the sort key (r.get("status") != "connected", r.get("display_name", ""))
KeyLeq(a, b) ==
  LET a1 == IF Get(a, "status") # "connected" THEN 1 ELSE 0
      b1 == IF Get(b, "status") # "connected" THEN 1 ELSE 0
  IN \/ a1 < b1
     \/ a1 = b1 /\ NameRank(Get(a, "display_name")) <= NameRank(Get(b, "display_name"))

\* rows.sort(key=...): a stable sort
RECURSIVE SortRows(_)
SortRows(rows) ==
  IF rows = <<>> THEN <<>>
  ELSE LET n == Len(rows)
           sorted == SortRows(SubSeq(rows, 1, n - 1))
           r == rows[n]
       IN SelectSeq(sorted, LAMBDA x : KeyLeq(x, r)) \o <<r>>
          \o SelectSeq(sorted, LAMBDA x : ~KeyLeq(x, r))

MapToModel(rows) == [i \in 1..Len(rows) |-> ToModel(rows[i])]

\* what list_all returns for the rows the store answered
ListAllResult(resp) == MapToModel(SortRows(resp))

\* the call, its one select and the return
ListAll(limit) ==
  /\ CanCall(limit)
  /\ \E resp \in OrderByLastSeenDesc(store) :
        last' = Returned(Idle, "list_all", FALSE, ListAllResult(resp), FALSE)
  /\ calls' = calls + 1
  /\ UNCHANGED <<store, clock, inflight>>

\* the select raises: return []
ListAllFails(limit) ==
  /\ CanCall(limit)
  /\ last' = Returned(Idle, "list_all", TRUE, <<>>, FALSE)
  /\ calls' = calls + 1
  /\ UNCHANGED <<store, clock, inflight>>

(* ---------------- exists ---------------- *)
\* a lookup that only finds connected records
ExistsResultConnectedOnly(tbl, n) ==
  SelectOne(tbl, n) # <<>> /\ SelectOne(tbl, n)[1].status = "connected"

\* bool(resp.data)
ExistsResult(tbl, n) == SelectOne(tbl, n) # <<>>

\* the call, its one select and the return
Exists(limit) ==
  /\ CanCall(limit)
  /\ \E n \in Names :
        last' = Returned([Idle EXCEPT !.name = n], "exists", FALSE, <<>>,
                         ExistsResult(store, n))
  /\ calls' = calls + 1
  /\ UNCHANGED <<store, clock, inflight>>

\* the select raises: return False
ExistsFails(limit) ==
  /\ CanCall(limit)
  /\ \E n \in Names :
        last' = Returned([Idle EXCEPT !.name = n], "exists", TRUE, <<>>, FALSE)
  /\ calls' = calls + 1
  /\ UNCHANGED <<store, clock, inflight>>

(* ---------------- specifications ---------------- *)
\* a caller starts an operation
Call(limit) ==
  \/ MarkConnectedSelect(limit)
  \/ MarkConnectedSelectFails(limit)
  \/ MarkDisconnectedNow(limit)
  \/ ListAll(limit)
  \/ ListAllFails(limit)
  \/ Exists(limit)
  \/ ExistsFails(limit)

\* a call in flight executes its next statement
Step ==
  \/ \E f \in BagToSet(inflight) : MarkConnectedNow(f)
  \/ \E f \in BagToSet(inflight) : MarkConnectedUpdate(f)
  \/ \E f \in BagToSet(inflight) : MarkConnectedInsert(f)
  \/ \E f \in BagToSet(inflight) : MarkConnectedWriteFails(f)
  \/ \E f \in BagToSet(inflight) : MarkConnectedExcept(f)
  \/ \E f \in BagToSet(inflight) : MarkDisconnectedUpdate(f)
  \/ \E f \in BagToSet(inflight) : MarkDisconnectedInsert(f)
  \/ \E f \in BagToSet(inflight) : MarkDisconnectedWriteFails(f)

\* concurrent callers, interleaved at every call to the store
Next ==
  \/ Call(MaxCalls)
  \/ Step

Spec == Init /\ [][Next]_vars

\* one call at a time: a call starts only when no call is in flight
Quiet == inflight = EmptyBag

NextSeq ==
  \/ Quiet /\ MarkConnectedSelect(MaxCalls)
  \/ Quiet /\ MarkConnectedSelectFails(MaxCalls)
  \/ Quiet /\ MarkDisconnectedNow(MaxCalls)
  \/ Quiet /\ ListAll(MaxCalls)
  \/ Quiet /\ ListAllFails(MaxCalls)
  \/ Quiet /\ Exists(MaxCalls)
  \/ Quiet /\ ExistsFails(MaxCalls)
  \/ Step

SpecSeq == Init /\ [][NextSeq]_vars

\* list_all as a function of the table: the table starts as any table of up
\* to three names and list_all is called on it
ListNames == Names \cup {"agent3"}
ListRows ==
  {[display_name |-> n, status |-> st, client_id |-> NONE, last_seen |-> ls,
    first_seen |-> 0, last_seen_version |-> NONE, capabilities |-> EMPTY] :
      n \in ListNames, st \in {"connected", "disconnected"}, ls \in 0..MaxClock}
ListTables ==
  UNION {{t \in [1..k -> ListRows] :
            \A i, j \in 1..k : i # j => t[i].display_name # t[j].display_name} :
         k \in 0..Cardinality(ListNames)}

InitList ==
  /\ store \in ListTables
  /\ clock = MaxClock
  /\ inflight = EmptyBag
  /\ calls = 0
  /\ last = NoCall

NextList ==
  \/ ListAll(MaxCalls)
  \/ ListAllFails(MaxCalls)

SpecList == InitList /\ [][NextList]_vars

\* concurrent mark_connected and mark_disconnected calls with a store that
\* never fails by itself: the only rejected request is the insert of a name
\* that is already stored
NextUpsert ==
  \/ MarkConnectedSelect(MaxCalls)
  \/ MarkDisconnectedNow(MaxCalls)
  \/ \E f \in BagToSet(inflight) : MarkConnectedNow(f)
  \/ \E f \in BagToSet(inflight) : MarkConnectedUpdate(f)
  \/ \E f \in BagToSet(inflight) : MarkConnectedInsert(f)
  \/ \E f \in BagToSet(inflight) : MarkConnectedExcept(f)
  \/ \E f \in BagToSet(inflight) : MarkDisconnectedUpdate(f)
  \/ \E f \in BagToSet(inflight) : MarkDisconnectedInsert(f)

SpecUpsert == Init /\ [][NextUpsert]_vars

(* ---------------- observers used by the properties ---------------- *)
RowsOf(tbl, n) == Matching(tbl, n)
Stored(n) == RowsOf(store, n) # <<>>
Rec(n) == RowsOf(store, n)[1]
Frames == BagToSet(inflight)

\* this step is a statement of the call with frame f
Acts(f) ==
  f \in Frames /\ calls' = calls /\ CopiesIn(f, inflight') < CopiesIn(f, inflight)

\* this step is the return of the call with frame f
Returns(f) == f \in Frames /\ inflight' = Ended(f) /\ calls' = calls
\* ... through its normal path, no except clause
ReturnsOk(f) == Returns(f) /\ ~last'.failed

\* this step is a whole list_all / exists call that did not fail
ListAllReturns ==
  calls' = calls + 1 /\ inflight' = inflight /\ last'.op = "list_all" /\ ~last'.failed
ExistsReturns ==
  calls' = calls + 1 /\ inflight' = inflight /\ last'.op = "exists" /\ ~last'.failed

\* the records of name n in a returned sequence
Named(rows, n) == SelectSeq(rows, LAMBDA r : r.display_name = n)

(* ---------------- C1 ---------------- *)
\* C1: in every reachable state, whatever the interleaving of concurrent
\* mark_connected and mark_disconnected calls, the store holds at most one
\* record per display_name.
C1_OneRecordPerName == \A n \in Names : Len(RowsOf(store, n)) <= 1

\* two mark_connected calls selected the same unknown name; one has inserted
\* it and returned, the other's insert was rejected
C1_Witness ==
  /\ last.op = "mark_connected" /\ ~last.failed
  /\ \E f \in Frames : /\ f.pc = "mc_except" /\ f.existing = <<>>
                       /\ f.name = last.name
                       /\ last.rows[1].first_seen = last.rows[1].last_seen
  /\ Len(RowsOf(store, last.name)) = 1

C3_FirstSeenFixed ==
  [][\A n \in Names :
       (Stored(n) /\ RowsOf(store', n) # <<>>) =>
          RowsOf(store', n)[1].first_seen = Rec(n).first_seen]_vars

\* a record that was written again at a later time than its creation
C3_Witness ==
  \E n \in Names : Stored(n) /\ Rec(n).last_seen > Rec(n).first_seen

(* ---------------- C4 ---------------- *)
\* C4: in every reachable state every stored record has
\* first_seen <= last_seen.
C4_FirstSeenLeqLastSeen ==
  \A i \in 1..Len(store) : store[i].first_seen <= store[i].last_seen

(* ---------------- C5 ---------------- *)
\* C5: when a mark_connected (mark_disconnected) call returns without a
\* backend failure, the stored status of its name is connected
\* (disconnected), whatever it was before; and a list_all that follows a
\* mark_connected(name) returns exactly one record of that name, connected.
C5_StatusAfterCall ==
  [][/\ \A f \in Frames :
          ReturnsOk(f) =>
             /\ Len(RowsOf(store', f.name)) = 1
             /\ RowsOf(store', f.name)[1].status =
                  (IF last'.op = "mark_connected" THEN "connected" ELSE "disconnected")
     /\ (ListAllReturns /\ last.op = "mark_connected" /\ ~last.failed) =>
           /\ Len(Named(last'.rows, last.name)) = 1
           /\ Named(last'.rows, last.name)[1].status = "connected"]_vars

\* a mark_connected call has run alone and the list_all after it returned
\* its record, connected
C5_Witness ==
  /\ inflight = EmptyBag /\ calls = 2
  /\ last.op = "list_all" /\ ~last.failed
  /\ \E i \in 1..Len(last.rows) : last.rows[i].status = "connected"

IsPermutation(s, t) ==
  /\ Len(s) = Len(t)
  /\ \E p \in [1..Len(s) -> 1..Len(s)] :
        /\ \A i, j \in 1..Len(s) : i # j => p[i] # p[j]
        /\ \A i \in 1..Len(s) : s[i] = t[p[i]]

\* C8: the sequence a non-failing list_all returns holds every stored record
\* exactly once, and no disconnected record comes before a connected one.
C8_ListAll ==
  [][ListAllReturns =>
        /\ IsPermutation(last'.rows, MapToModel(store))
        /\ \A i, j \in 1..Len(last'.rows) :
              (i < j /\ last'.rows[j].status = "connected")
                 => last'.rows[i].status = "connected"]_vars

\* list_all on {agent1: connected, agent2: disconnected, agent3: connected}
\* returned agent1 and agent3 before agent2
C8_Witness ==
  /\ last.op = "list_all" /\ ~last.failed
  /\ Len(last.rows) = 3
  /\ last.rows[1].display_name = "agent1" /\ last.rows[1].status = "connected"
  /\ last.rows[2].display_name = "agent3" /\ last.rows[2].status = "connected"
  /\ last.rows[3].display_name = "agent2" /\ last.rows[3].status = "disconnected"
  /\ last.rows[3].last_seen > last.rows[2].last_seen

(* ---------------- C9 ---------------- *)
\* C9: with no backend failure, exists(name) returns true iff a record of
\* that name is stored, whatever its status: true right after a completed
\* mark_connected(name) or mark_disconnected(name), false for a name that no
\* mark_connected or mark_disconnected was called with (a record appears only
\* by the insert of a call for its name).
C9_Exists ==
  [][/\ ExistsReturns =>
          /\ last'.found = Stored(last'.name)
          /\ (last.op \in {"mark_connected", "mark_disconnected"} /\ ~last.failed
                /\ last.name = last'.name) => last'.found
     /\ \A n \in Names :
          (~Stored(n) /\ RowsOf(store', n) # <<>>) =>
             \E f \in Frames : /\ f.name = n /\ f.pc \in {"mc_insert", "md_insert"}
                               /\ Returns(f)]_vars

\* exists returned true for a disconnected record while another name is
\* not stored
C9_Witness ==
  /\ last.op = "exists" /\ ~last.failed /\ last.found
  /\ Stored(last.name) /\ Rec(last.name).status = "disconnected"
  /\ \E n \in Names : ~Stored(n)

EntersExcept(f) ==
  /\ f \in Frames /\ calls' = calls
  /\ inflight' = Moved(f, [f EXCEPT !.now = clock', !.pc = "mc_except"])

\* C11: when a backend call of mark_connected fails (the select, the update
\* or the insert), the call takes both timestamps afresh and returns, with no
\* error and no further write, a record built from its inputs: display_name
\* as given, status connected, client_id and last_seen_version as supplied
\* (None when omitted, whatever the store holds), capabilities as supplied or
\* the empty mapping.
C11_Fallback ==
  [][/\ \A f \in Frames :
          (Acts(f) /\ f.pc \in {"mc_update", "mc_insert"} /\ ~Returns(f))
            => EntersExcept(f) /\ store' = store
     /\ \A g \in BagToSet(inflight') :
          (g.pc = "mc_except" /\ CopiesIn(g, inflight') > CopiesIn(g, inflight))
            => g.now = clock' /\ store' = store
     /\ \A f \in Frames :
          (f.pc = "mc_except" /\ Acts(f)) =>
             /\ Returns(f)
             /\ store' = store
             /\ last'.op = "mark_connected" /\ last'.failed
             /\ last'.rows =
                  <<[display_name |-> f.name, status |-> "connected",
                     client_id |-> f.client_id, last_seen |-> f.now,
                     first_seen |-> clock', last_seen_version |-> f.version,
                     capabilities |-> IF f.capabilities = NONE THEN EMPTY
                                      ELSE f.capabilities]>>]_vars

\* mark_connected(n) with client_id and version omitted failed at its update
\* of a record that holds "sess-1" and "1.0": the record it returned holds
\* neither
C11_Witness ==
  /\ last.op = "mark_connected" /\ last.failed
  /\ last.client_id = NONE /\ last.version = NONE
  /\ Stored(last.name)
  /\ Rec(last.name).client_id = "sess-1" /\ Rec(last.name).last_seen_version = "1.0"
  /\ last.rows[1].client_id = NONE /\ last.rows[1].last_seen_version = NONE
  /\ last.rows[1].status = "connected" /\ last.rows[1].capabilities = EMPTY

(* ---------------- C12 ---------------- *)
\* this step is a whole list_all / exists call whose select failed
ReadFails == calls' = calls + 1 /\ inflight' = inflight /\ last'.failed

C13_NeverRemoved ==
  [][/\ \A n \in Names : Stored(n) => RowsOf(store', n) # <<>>
     /\ (ExistsReturns /\ Stored(last'.name)) => last'.found
     /\ ListAllReturns =>
          \A n \in Names : Stored(n) => Named(last'.rows, n) # <<>>]_vars

\* a record created by one call has been written again by a
\* mark_disconnected call and is still stored
C13_Witness ==
  /\ last.op = "mark_disconnected" /\ ~last.failed
  /\ Stored(last.name)
  /\ Rec(last.name).status = "disconnected"
  /\ Rec(last.name).first_seen < Rec(last.name).last_seen

(* ---------------- C14 ---------------- *)
\* the operation a frame belongs to, and the frame a call c (a frame, or the
\* record of a returned call) starts with
OpOf(f) ==
  IF f.pc \in {"mc_now", "mc_update", "mc_insert", "mc_except"}
  THEN "mark_connected" ELSE "mark_disconnected"
AsFrame(c) ==
  [Idle EXCEPT !.name = c.name, !.client_id = c.client_id,
               !.version = c.version, !.capabilities = c.capabilities]

\* the table after call c of operation op has run on tbl with no other call
\* between its statements
Atomic(tbl, op, c) ==
  LET f == AsFrame(c)
      found == Matching(tbl, f.name) # <<>>
  IN IF op = "mark_connected"
     THEN IF found THEN TableUpdate(tbl, f.name, ConnectedUpdate(f))
                   ELSE TableInsert(tbl, ConnectedInsert(f))
     ELSE IF found THEN TableUpdate(tbl, f.name, DisconnectedUpdate(f))
                   ELSE TableInsert(tbl, DisconnectedInsert(f))

\* the fields of the record of name n that do not depend on the clock
Outcome(tbl, n) ==
  LET r == Matching(tbl, n)[1]
  IN <<r.status, r.client_id, r.last_seen_version, r.capabilities>>

\* C14: when the second of two calls (mark_connected or mark_disconnected)
\* for the same name returns, on a store that started empty and rejects
\* nothing but duplicate names, the stored record has the status, client_id,
\* last_seen_version and capabilities that one of the two serial orders of
\* the calls produces.
C14_AtomicUpsert ==
  [][\A f \in Frames :
       (/\ Returns(f) /\ inflight' = EmptyBag /\ calls = 2
        /\ last.op \in {"mark_connected", "mark_disconnected"}
        /\ last.name = f.name) =>
          /\ RowsOf(store', f.name) # <<>>
          /\ Outcome(store', f.name) \in
               {Outcome(Atomic(Atomic(<<>>, last.op, last), OpOf(f), f), f.name),
                Outcome(Atomic(Atomic(<<>>, OpOf(f), f), last.op, last), f.name)}]_vars

(* ---------------- C15 ---------------- *)
\* C15: a statement of a mark_connected or mark_disconnected call for a name
\* leaves the records of every other name as they were, whatever calls for
\* other names are in flight; and the step that starts a call (for list_all
\* and exists, the whole call) leaves the store as it was.
C15_OtherNamesUntouched ==
  [][/\ \A f \in Frames :
          Acts(f) => \A n \in Names \ {f.name} : RowsOf(store', n) = RowsOf(store, n)
     /\ calls' = calls + 1 => store' = store]_vars

\* mark_disconnected("agent2") read the clock, then mark_connected("agent1")
\* created its record at a later time, then mark_disconnected created the
\* record of agent2: both records are as their own call wrote them
C15_Witness ==
  /\ Len(store) = 2
  /\ store[1].display_name = "agent1" /\ store[1].status = "connected"
  /\ store[2].display_name = "agent2" /\ store[2].status = "disconnected"
  /\ store[2].last_seen < store[1].last_seen

(* ---------------- C16 ---------------- *)
\* C16: in the sequence a non-failing list_all returns, two records of the
\* same status come most recently seen first: the earlier one has the
\* greater or equal last_seen.
C16_GroupsByLastSeen ==
  [][ListAllReturns =>
        \A i, j \in 1..Len(last'.rows) :
           (i < j /\ last'.rows[i].status = last'.rows[j].status)
              => last'.rows[i].last_seen >= last'.rows[j].last_seen]_vars

(* ---------------- C17 ---------------- *)
\* C17: the record that the last mark_connected or mark_disconnected call
\* returned, the fallback record of a failed mark_connected included, has
\* first_seen <= last_seen.
C17_ReturnedFirstLeqLast ==
  last.op \in {"mark_connected", "mark_disconnected"} =>
     \A i \in 1..Len(last.rows) : last.rows[i].first_seen <= last.rows[i].last_seen

(* ---------------- C18 ---------------- *)
\* C18: with a clock that never goes back, no step of any interleaving of
\* concurrent calls lowers the stored last_seen of a name.
C18_LastSeenMonotone ==
  [][\A n \in Names :
       (Stored(n) /\ RowsOf(store', n) # <<>>) =>
          RowsOf(store', n)[1].last_seen >= Rec(n).last_seen]_vars
====
